---- MODULE Spec2Model ----
(***************************************************************************)
(* radar-fetcher (src/src/main.rs): the pipeline of main, from the fetch   *)
(* of the index page, through link extraction (fetch_download_links), to   *)
(* the bounded-concurrency download (download_files, download_file) and    *)
(* the progress tracker (DownloadProgress).                                *)
(*                                                                         *)
(* Strings that the code inspects (hrefs, URLs) are sequences of tokens,   *)
(* so that contains, starts_with, Url::join and Path::file_name are        *)
(* computed on their content.                                              *)
(***************************************************************************)
EXTENDS Integers, Sequences, FiniteSets, TLC

VARIABLES
    pc,               \* position of main
    page,             \* the index page: text (html) and its anchors (document)
    result,           \* what fetch_download_links returned (or how it ended)
    links,            \* download_files: the links argument
    total,            \* DownloadProgress.total
    current,          \* DownloadProgress.current (the atomic counter)
    last_file,        \* DownloadProgress.last_file
    permits,          \* free permits of the semaphore
    waiters,          \* FIFO queue of the semaphore's waiters
    spawned,          \* number of units spawned so far by the for loop
    tpc,              \* position of every download unit
    permit,           \* whether a unit holds a permit (_permit)
    tcur,             \* a unit's local `current` inside increment
    outcome,          \* what a unit's JoinHandle yields
    downloaded_files, \* what download_files returned
    reported,         \* the count printed by main ("Total files downloaded")
    requests,         \* number of GET requests every unit has sent
    status,           \* the status class of the response a unit received
    files,            \* the files of the output directory, by name
    shown,            \* the count of the progress line printed last
    markers           \* number of "Download Complete!" lines printed

\* what the units leave behind: requests, responses, files and display
envvars == <<requests, status, files, shown, markers>>

vars == <<pc, page, result, links, total, current, last_file, permits, waiters,
          spawned, tpc, permit, tcur, outcome, downloaded_files, reported,
          requests, status, files, shown, markers>>

dlvars == <<links, total, current, last_file, permits, waiters, spawned, tpc,
            permit, tcur, outcome, downloaded_files, reported, envvars>>

(***************************************************************************)
(* Bounds of the model.                                                    *)
(***************************************************************************)
\* longest document (number of anchors) the extraction is checked on
MaxAnchors == 3

\* capacity of the admission gate; the code's value is 50 (main.rs:177),
\* scaled down so that more units than permits exist
max_concurrent == 2

(***************************************************************************)
(* Helpers on sequences.                                                   *)
(***************************************************************************)
Range(s) == {s[i] : i \in 1..Len(s)}

SeqsUpTo(S, n) == UNION {[1..k -> S] : k \in 0..n}

Min(a, b) == IF a <= b THEN a ELSE b

\* str::contains / the CSS [href*='x'] test, on token sequences
Contains(s, tok) == \E i \in 1..Len(s) : s[i] = tok

\* str::starts_with
StartsWith(s, tok) == Len(s) > 0 /\ s[1] = tok

(***************************************************************************)
(* Inputs: the hrefs, anchors and page texts the index page is drawn from. *)
(***************************************************************************)
A(ctx, href) == [has |-> TRUE, href |-> href, ctx |-> ctx]

\* an <a> element without href attribute
NoHref(ctx) == [has |-> FALSE, href |-> <<>>, ctx |-> ctx]

\* ctx: the container the anchor is a descendant of
AnchorPool ==
    { A("div.bdpLink", <<"data1", ".tar", ".gz">>),
      A("div.bdpLink", <<".", "/", "data1", ".tar", ".gz">>),
      A("div.bdpLink", <<"data2", ".tar", ".gz">>),
      A("div.bdpLink", <<"data3", ".bz2">>),
      A("div.bdpLink", <<"http", "s://", "x.test", "/", "data1", ".tar", ".gz">>),
      A("div.bdpLink", <<"ignore", ".html">>),
      NoHref("div.bdpLink"),
      A("div.bdpLink", <<"http", "://", "[", "/", "x", ".gz">>),
      A("none", <<".", "/", "data1", ".tar", ".gz">>),
      A("none", <<"http", "s://", "x.test", "/", "download", "/", "f">>),
      A("none", <<"download", "/", "f">>),
      A("none", <<"http", "://", "[", "/", "x", ".gz">>),
      A("table", <<"http", "s://", "y.test", "/", "KHTX", "V06">>) }

\* the html text as runs of characters: n characters of w bytes each
TextPool ==
    { << [n |-> 10, w |-> 1] >>,
      << [n |-> 999, w |-> 1], [n |-> 1, w |-> 2] >>,
      << [n |-> 1000, w |-> 1], [n |-> 1, w |-> 2] >> }

Pages == [text : TextPool, anchors : SeqsUpTo(AnchorPool, MaxAnchors)]

NoPage == [text |-> <<>>, anchors |-> <<>>]

\* the pages the whole pipeline is run on: the first k anchors of one listing
\* of three distinct files, two of which share their file name
Listing ==
    << A("div.bdpLink", <<"data1", ".tar", ".gz">>),
       A("div.bdpLink", <<"http", "s://", "x.test", "/", "data1", ".tar", ".gz">>),
       A("div.bdpLink", <<"data2", ".tar", ".gz">>) >>

ListingPages ==
    [text : TextPool,
     anchors : {SubSeq(Listing, 1, k) : k \in 0..Len(Listing)}]

(***************************************************************************)
(* fetch_download_links: the selection rules, the filter and resolve_url.  *)
(***************************************************************************)
Desc(anc) == [kind |-> "desc", arg |-> anc]

Attr(sub) == [kind |-> "attr", arg |-> sub]

\* a variant of the selectors vector that tries the fallback first
selectorsFallbackFirst ==
    << [kind |-> "all", arg |-> ""],
       Desc("div.bdpLink"),
       Attr(".gz"),
       Attr(".tar"),
       Attr(".bz2"),
       Attr("download"),
       Attr("V06"),
       Attr("AAL2"),
       Desc("table"),
       Desc(".download"),
       Desc(".file-link") >>

\* the selectors vector, in its order
selectors ==
    << Desc("div.bdpLink"),
       Attr(".gz"),
       Attr(".tar"),
       Attr(".bz2"),
       Attr("download"),
       Attr("V06"),
       Attr("AAL2"),
       Desc("table"),
       Desc(".download"),
       Desc(".file-link"),
       [kind |-> "all", arg |-> ""] >>

\* whether element e matches selector sel
Matches(sel, e) ==
    CASE sel.kind = "desc" -> e.ctx = sel.arg
      [] sel.kind = "attr" -> e.has /\ Contains(e.href, sel.arg)
      [] OTHER -> TRUE

\* document.select(&selector): the matching elements in document order
RECURSIVE Select(_, _)
Select(document, sel) ==
    IF document = <<>> THEN <<>>
    ELSE (IF Matches(sel, Head(document)) THEN <<Head(document)>> ELSE <<>>)
           \o Select(Tail(document), sel)

\* the filter for likely data file links
LikelyDataFile(href) ==
    \/ Contains(href, ".gz")
    \/ Contains(href, ".tar")
    \/ Contains(href, ".bz2")
    \/ Contains(href, "V06")
    \/ Contains(href, "AAL2")
    \/ (StartsWith(href, "http") /\ Contains(href, "download"))

\* the directory of the index page's URL, which relative hrefs are joined to
BaseDir == <<"http", "s://", "www.ncdc.noaa.gov", "/", "nexradinv", "/">>

\* Url::join drops leading "./" segments of a relative reference
RECURSIVE RemoveDotSegments(_)
RemoveDotSegments(path) ==
    IF Len(path) >= 2 /\ path[1] = "." /\ path[2] = "/"
    THEN RemoveDotSegments(SubSeq(path, 3, Len(path)))
    ELSE path

\* Url::parse of the host of an absolute reference
ValidHost(host) == host \notin {"[", ""}

\* resolve_url(base_url, link): [ok, url]
resolve_url(link) ==
    IF StartsWith(link, "http")
    THEN IF Len(link) >= 3 /\ ValidHost(link[3])
         THEN [ok |-> TRUE, url |-> link]
         ELSE [ok |-> FALSE, url |-> <<>>]
    ELSE IF StartsWith(link, "/")
         THEN [ok |-> TRUE, url |-> SubSeq(BaseDir, 1, 3) \o link]
         ELSE [ok |-> TRUE, url |-> BaseDir \o RemoveDotSegments(link)]

\* a variant of the duplicate test that finds nothing
NeverListed(ls, url) == FALSE

\* links.contains(&absolute_url)
AlreadyListed(ls, url) == \E i \in 1..Len(ls) : ls[i] = url

\* the inner for loop over the elements one selector matched:
\* [err, links, found_links]
RECURSIVE ScanElements(_, _, _)
ScanElements(elems, ls, found_links) ==
    IF elems = <<>>
    THEN [err |-> FALSE, links |-> ls, found |-> found_links]
    ELSE LET e == Head(elems) IN
         IF e.has /\ LikelyDataFile(e.href)
         THEN LET r == resolve_url(e.href) IN
              IF ~r.ok
              THEN [err |-> TRUE, links |-> <<>>, found |-> 0]
              ELSE IF ~AlreadyListed(ls, r.url)
                   THEN ScanElements(Tail(elems), Append(ls, r.url), found_links + 1)
                   ELSE ScanElements(Tail(elems), ls, found_links)
         ELSE ScanElements(Tail(elems), ls, found_links)

\* a variant of the loop exit that never leaves the loop
NeverBreak(found_links) == FALSE

\* if found_links > 0 { ...; break; }
BreakOnFound(found_links) == found_links > 0

\* the outer for loop over the selectors, from selector i on:
\* [err, links, sel] with sel the selector that was used (0: none)
RECURSIVE ScanSelectors(_, _, _)
ScanSelectors(document, i, ls) ==
    IF i > Len(selectors)
    THEN [err |-> FALSE, links |-> ls, sel |-> 0]
    ELSE LET r == ScanElements(Select(document, selectors[i]), ls, 0) IN
         IF r.err THEN [err |-> TRUE, links |-> <<>>, sel |-> i]
         ELSE IF BreakOnFound(r.found)
              THEN [err |-> FALSE, links |-> r.links, sel |-> i]
              ELSE ScanSelectors(document, i + 1, r.links)

\* html.len(), in bytes
RECURSIVE HtmlLen(_)
HtmlLen(text) ==
    IF text = <<>> THEN 0
    ELSE Head(text).n * Head(text).w + HtmlLen(Tail(text))

\* str::is_char_boundary(idx)
RECURSIVE IsCharBoundary(_, _)
IsCharBoundary(text, idx) ==
    IF idx = 0 THEN TRUE
    ELSE IF text = <<>> THEN FALSE
    ELSE LET run == Head(text).n * Head(text).w IN
         IF idx <= run THEN idx % Head(text).w = 0
         ELSE IsCharBoundary(Tail(text), idx - run)

\* the length of the HTML preview printed when no link was found
PreviewLen == 1000

\* &html[..min(1000, html.len())]: slicing panics off a char boundary
PreviewOk(text) == IsCharBoundary(text, Min(PreviewLen, HtmlLen(text)))

\* fetch_download_links on a fetched page: how it ends (kind: "ok", "err",
\* "panic"), the links it returns and the selector it used
fetch_download_links(p) ==
    LET r == ScanSelectors(p.anchors, 1, <<>>) IN
    IF r.err THEN [kind |-> "err", links |-> <<>>, sel |-> r.sel]
    ELSE IF r.links = <<>> /\ ~PreviewOk(p.text)
         THEN [kind |-> "panic", links |-> <<>>, sel |-> r.sel]
         ELSE [kind |-> "ok", links |-> r.links, sel |-> r.sel]

NoResult == [kind |-> "none", links |-> <<>>, sel |-> 0]

\* trailing separators are no component of a path
RECURSIVE TrimSlashes(_)
TrimSlashes(url) ==
    IF url # <<>> /\ url[Len(url)] = "/"
    THEN TrimSlashes(SubSeq(url, 1, Len(url) - 1))
    ELSE url

RECURSIVE LastComponent(_)
LastComponent(url) ==
    IF Contains(url, "/") THEN LastComponent(Tail(url)) ELSE url

\* Path::new(url).file_name()...unwrap_or("unknown_file")
file_name(url) ==
    LET name == LastComponent(TrimSlashes(url)) IN
    IF name = <<>> \/ name = <<"..">> THEN <<"unknown_file">> ELSE name

(***************************************************************************)
(* The state after construction: main is about to fetch the index page.    *)
(***************************************************************************)
Init ==
    /\ pc = "fetch"
    /\ page = NoPage
    /\ result = NoResult
    /\ links = <<>>
    /\ total = 0
    /\ current = 0
    /\ last_file = <<>>
    /\ permits = 0
    /\ waiters = <<>>
    /\ spawned = 0
    /\ tpc = <<>>
    /\ permit = <<>>
    /\ tcur = <<>>
    /\ outcome = <<>>
    /\ downloaded_files = <<>>
    /\ reported = -1
    /\ requests = <<>>
    /\ status = <<>>
    /\ files = <<>>
    /\ shown = 0
    /\ markers = 0

Tasks == 1..Len(links)

(***************************************************************************)
(* main and fetch_download_links.                                          *)
(***************************************************************************)
\* client.get(radar_url).send().await? or response.text().await? fails
FetchIndexFails ==
    /\ pc = "fetch"
    /\ result' = [kind |-> "err", links |-> <<>>, sel |-> 0]
    /\ pc' = "extracted"
    /\ UNCHANGED <<page>>
    /\ UNCHANGED dlvars

\* the index page arrives (whatever its status) and is parsed
FetchIndexOk(P) ==
    /\ pc = "fetch"
    /\ \E p \in P : page' = p
    /\ pc' = "extract"
    /\ UNCHANGED <<result>>
    /\ UNCHANGED dlvars

\* the rest of fetch_download_links, which does not suspend
ExtractLinks ==
    /\ pc = "extract"
    /\ result' = fetch_download_links(page)
    /\ pc' = "extracted"
    /\ UNCHANGED <<page>>
    /\ UNCHANGED dlvars

\* let links = fetch_download_links(&url).await?  with an Err: main returns it
MainFatal ==
    /\ pc = "extracted"
    /\ result.kind = "err"
    /\ pc' = "fatal"
    /\ UNCHANGED <<page, result>>
    /\ UNCHANGED dlvars

\* a variant of the test of main that finds no list empty
is_empty_never(ls) == FALSE

\* links.is_empty()
is_empty(ls) == ls = <<>>

\* the panic of fetch_download_links unwinds through main
MainPanics ==
    /\ pc = "extracted"
    /\ result.kind = "panic"
    /\ pc' = "panicked"
    /\ UNCHANGED <<page, result>>
    /\ UNCHANGED dlvars

\* if links.is_empty() { ...; return Ok(()) }
MainNoLinks ==
    /\ pc = "extracted"
    /\ result.kind = "ok"
    /\ is_empty(result.links)
    /\ pc' = "nolinks"
    /\ UNCHANGED <<page, result>>
    /\ UNCHANGED dlvars

\* a variant of the semaphore with one permit too many
SemaphoreNewPlusOne == max_concurrent + 1

\* what a JoinHandle yields: nothing yet, None, or Some(filename)
Pending == [kind |-> "pending", name |-> <<>>]

None == [kind |-> "none", name |-> <<>>]

Some(filename) == [kind |-> "some", name |-> filename]

\* Semaphore::new(max_concurrent)
SemaphoreNew == max_concurrent

\* a variant of the tracker's total that leaves one link out
ProgressNewShort(ls) == Len(ls) - 1

\* DownloadProgress::new(links.len()): the total
ProgressNew(ls) == Len(ls)

\* a name of the output directory under which no file exists
NoFile == [exists |-> FALSE, content |-> <<>>]

\* main calls download_files(links, &output_dir), which builds the progress
\* tracker, the client and the semaphore
DownloadFilesStart ==
    /\ pc = "extracted"
    /\ result.kind = "ok"
    /\ ~is_empty(result.links)
    /\ links' = result.links
    /\ total' = ProgressNew(result.links)
    /\ current' = 0
    /\ last_file' = <<>>
    /\ permits' = SemaphoreNew
    /\ waiters' = <<>>
    /\ spawned' = 0
    /\ tpc' = [t \in 1..Len(result.links) |-> "unspawned"]
    /\ permit' = [t \in 1..Len(result.links) |-> FALSE]
    /\ tcur' = [t \in 1..Len(result.links) |-> 0]
    /\ outcome' = [t \in 1..Len(result.links) |-> Pending]
    /\ page' = NoPage
    /\ result' = NoResult
    /\ requests' = [t \in 1..Len(result.links) |-> 0]
    /\ status' = [t \in 1..Len(result.links) |-> "none"]
    /\ files' = [n \in {file_name(l) : l \in Range(result.links)} |-> NoFile]
    /\ shown' = 0
    /\ markers' = 0
    /\ pc' = "spawning"
    /\ UNCHANGED <<downloaded_files, reported>>

(***************************************************************************)
(* download_files: the spawn loop, the download units and join_all.        *)
(***************************************************************************)
\* one round of `for link in links`: tokio::spawn of the unit of the next link
Spawn ==
    /\ pc = "spawning"
    /\ spawned < Len(links)
    /\ spawned' = spawned + 1
    /\ tpc' = [tpc EXCEPT ![spawned + 1] = "acquire"]
    /\ pc' = IF spawned + 1 = Len(links) THEN "joining" ELSE "spawning"
    /\ UNCHANGED <<page, result, links, total, current, last_file, permits,
                   waiters, permit, tcur, outcome, downloaded_files, reported>>
    /\ UNCHANGED envvars

\* semaphore_clone.acquire().await: a free permit is taken at once (and the
\* GET is sent), otherwise the unit queues
Acquire(t) ==
    /\ tpc[t] = "acquire"
    /\ IF permits > 0
       THEN /\ permits' = permits - 1
            /\ permit' = [permit EXCEPT ![t] = TRUE]
            /\ tpc' = [tpc EXCEPT ![t] = "send"]
            /\ requests' = [requests EXCEPT ![t] = @ + 1]
            /\ UNCHANGED waiters
       ELSE /\ waiters' = Append(waiters, t)
            /\ tpc' = [tpc EXCEPT ![t] = "waiting"]
            /\ UNCHANGED <<permits, permit, requests>>
    /\ UNCHANGED <<pc, page, result, links, total, current, last_file, spawned,
                   tcur, outcome, downloaded_files, reported>>
    /\ UNCHANGED <<status, files, shown, markers>>

\* a unit that was handed a permit while queued is polled again: acquire
\* returns and the GET is sent
Resume(t) ==
    /\ tpc[t] = "woken"
    /\ tpc' = [tpc EXCEPT ![t] = "send"]
    /\ requests' = [requests EXCEPT ![t] = @ + 1]
    /\ UNCHANGED <<pc, page, result, links, total, current, last_file, permits,
                   waiters, spawned, permit, tcur, outcome, downloaded_files,
                   reported>>
    /\ UNCHANGED <<status, files, shown, markers>>

\* the status classes of a response: 2xx, or any other status
Statuses == {"success", "error"}

\* client.get(url)...send().await returns a response (of any status:
\* error_for_status is not called)
SendOk(t) ==
    /\ tpc[t] = "send"
    /\ \E st \in Statuses : status' = [status EXCEPT ![t] = st]
    /\ tpc' = [tpc EXCEPT ![t] = "create"]
    /\ UNCHANGED <<pc, page, result, links, total, current, last_file, permits,
                   waiters, spawned, permit, tcur, outcome, downloaded_files,
                   reported>>
    /\ UNCHANGED <<requests, files, shown, markers>>

\* File::create(&file_path).await succeeds: the file exists and is empty
\* (an existing file is truncated)
CreateOk(t) ==
    /\ tpc[t] = "create"
    /\ files' = [files EXCEPT ![file_name(links[t])] =
                    [exists |-> TRUE, content |-> <<>>]]
    /\ tpc' = [tpc EXCEPT ![t] = "bytes"]
    /\ UNCHANGED <<pc, page, result, links, total, current, last_file, permits,
                   waiters, spawned, permit, tcur, outcome, downloaded_files,
                   reported>>
    /\ UNCHANGED <<requests, status, shown, markers>>

\* response.bytes().await returns the body
BytesOk(t) ==
    /\ tpc[t] = "bytes"
    /\ tpc' = [tpc EXCEPT ![t] = "write"]
    /\ UNCHANGED <<pc, page, result, links, total, current, last_file, permits,
                   waiters, spawned, permit, tcur, outcome, downloaded_files,
                   reported>>
    /\ UNCHANGED envvars

\* the body the server sends for the t-th link: t bytes, marked t
RemoteBody(t) == [i \in 1..t |-> t]

\* a write through a handle opened by File::create starts at offset 0 and
\* replaces as many bytes as it writes; what lies behind them stays
WriteAtStart(content, bytes) ==
    bytes \o SubSeq(content, Len(bytes) + 1, Len(content))

\* file.write_all(&bytes).await succeeds
WriteOk(t) ==
    /\ tpc[t] = "write"
    /\ files' = [files EXCEPT ![file_name(links[t])] =
                    [exists |-> TRUE,
                     content |-> WriteAtStart(@.content, RemoteBody(t))]]
    /\ tpc' = [tpc EXCEPT ![t] = "fetch_add"]
    /\ UNCHANGED <<pc, page, result, links, total, current, last_file, permits,
                   waiters, spawned, permit, tcur, outcome, downloaded_files,
                   reported>>
    /\ UNCHANGED <<requests, status, shown, markers>>

\* a variant of the error path that notifies the tracker before it returns
FailsAfterIncrement(t) ==
    /\ tpc[t] \in {"send", "create", "bytes", "write"}
    /\ current' = current + 1
    /\ tcur' = [tcur EXCEPT ![t] = current + 1]
    /\ tpc' = [tpc EXCEPT ![t] = "failed"]
    /\ UNCHANGED <<pc, page, result, links, total, last_file, permits,
                   waiters, spawned, permit, outcome, downloaded_files,
                   reported>>
    /\ UNCHANGED envvars

\* a variant of the error path that sends the request a second time before
\* it gives up
FailsWithRetry(t) ==
    /\ tpc[t] \in {"send", "create", "bytes", "write"}
    /\ IF requests[t] < 2
       THEN /\ requests' = [requests EXCEPT ![t] = @ + 1]
            /\ tpc' = [tpc EXCEPT ![t] = "send"]
       ELSE /\ tpc' = [tpc EXCEPT ![t] = "failed"]
            /\ UNCHANGED requests
    /\ UNCHANGED <<pc, page, result, links, total, current, last_file, permits,
                   waiters, spawned, permit, tcur, outcome, downloaded_files,
                   reported>>
    /\ UNCHANGED <<status, files, shown, markers>>

\* one of the four `?` of download_file returns the error: the request fails
\* or times out, the file cannot be created, the body cannot be read, the
\* write fails
Fails(t) ==
    /\ tpc[t] \in {"send", "create", "bytes", "write"}
    /\ tpc' = [tpc EXCEPT ![t] = "failed"]
    /\ UNCHANGED <<pc, page, result, links, total, current, last_file, permits,
                   waiters, spawned, permit, tcur, outcome, downloaded_files,
                   reported>>
    /\ UNCHANGED envvars

\* a variant of the counter's result that hands out the old value
FetchAddOld(c) == c

\* the value of `current` in increment: fetch_add(1, SeqCst) + 1
FetchAddResult(c) == c + 1

\* increment: let current = self.current.fetch_add(1, Ordering::SeqCst) + 1
FetchAdd(t) ==
    /\ tpc[t] = "fetch_add"
    /\ current' = current + 1
    /\ tcur' = [tcur EXCEPT ![t] = FetchAddResult(current)]
    /\ tpc' = [tpc EXCEPT ![t] = "set_last"]
    /\ UNCHANGED <<pc, page, result, links, total, last_file, permits, waiters,
                   spawned, permit, outcome, downloaded_files, reported>>
    /\ UNCHANGED envvars

\* increment: *last_file = filename.to_string(), under the mutex
SetLastFile(t) ==
    /\ tpc[t] = "set_last"
    /\ last_file' = file_name(links[t])
    /\ tpc' = [tpc EXCEPT ![t] = "print"]
    /\ UNCHANGED <<pc, page, result, links, total, current, permits, waiters,
                   spawned, permit, tcur, outcome, downloaded_files, reported>>
    /\ UNCHANGED envvars

\* a variant of the test of print_progress that holds from the last but one
\* count on
AlmostComplete(c) == c >= total - 1

\* print_progress: if current == self.total
Complete(c) == c = total

\* print_progress: the progress line replaces the one shown, and the
\* completion marker follows if current == self.total; then download_file
\* returns Ok(filename)
PrintProgress(t) ==
    /\ tpc[t] = "print"
    /\ shown' = tcur[t]
    /\ markers' = IF Complete(tcur[t]) THEN markers + 1 ELSE markers
    /\ tpc' = [tpc EXCEPT ![t] = "ok"]
    /\ UNCHANGED <<pc, page, result, links, total, current, last_file, permits,
                   waiters, spawned, permit, tcur, outcome, downloaded_files,
                   reported>>
    /\ UNCHANGED <<requests, status, files>>

\* the value of the unit's match: Some(filename), or None after eprintln
UnitValue(t) == IF tpc[t] = "ok" THEN Some(file_name(links[t])) ELSE None

\* drop(_permit): the semaphore hands the permit to its first waiter, or
\* counts it as free
DropPermit(t) ==
    IF waiters # <<>>
    THEN /\ permit' = [permit EXCEPT ![t] = FALSE, ![Head(waiters)] = TRUE]
         /\ tpc' = [tpc EXCEPT ![t] = "done", ![Head(waiters)] = "woken"]
         /\ waiters' = Tail(waiters)
         /\ UNCHANGED permits
    ELSE /\ permit' = [permit EXCEPT ![t] = FALSE]
         /\ tpc' = [tpc EXCEPT ![t] = "done"]
         /\ permits' = permits + 1
         /\ UNCHANGED waiters

\* a variant of the end of a unit that gives the permit back only after a
\* successful download
UnitEndKeepsPermitOnError(t) ==
    /\ tpc[t] \in {"ok", "failed"}
    /\ outcome' = [outcome EXCEPT ![t] = UnitValue(t)]
    /\ IF tpc[t] = "ok"
       THEN DropPermit(t)
       ELSE /\ tpc' = [tpc EXCEPT ![t] = "done"]
            /\ UNCHANGED <<permit, permits, waiters>>
    /\ UNCHANGED <<pc, page, result, links, total, current, last_file, spawned,
                   tcur, downloaded_files, reported>>
    /\ UNCHANGED envvars

\* the unit's block ends: its value goes to the JoinHandle and _permit is
\* dropped, after a success as after an error
UnitEnd(t) ==
    /\ tpc[t] \in {"ok", "failed"}
    /\ outcome' = [outcome EXCEPT ![t] = UnitValue(t)]
    /\ DropPermit(t)
    /\ UNCHANGED <<pc, page, result, links, total, current, last_file, spawned,
                   tcur, downloaded_files, reported>>
    /\ UNCHANGED envvars

\* a variant of the collection that gives up at the first None
RECURSIVE CollectUntilNone(_)
CollectUntilNone(results) ==
    IF results = <<>> \/ Head(results).kind # "some" THEN <<>>
    ELSE <<Head(results).name>> \o CollectUntilNone(Tail(results))

\* results.into_iter().filter_map(|result| result.ok().flatten()).collect()
RECURSIVE FilterMap(_)
FilterMap(results) ==
    IF results = <<>> THEN <<>>
    ELSE (IF Head(results).kind = "some" THEN <<Head(results).name>> ELSE <<>>)
           \o FilterMap(Tail(results))

\* join_all(tasks).await is ready once every unit ended; download_files
\* returns the collected filenames
JoinAll ==
    /\ pc = "joining"
    /\ \A t \in Tasks : tpc[t] = "done"
    /\ downloaded_files' = FilterMap(outcome)
    /\ pc' = "returned"
    /\ UNCHANGED <<page, result, links, total, current, last_file, permits,
                   waiters, spawned, tpc, permit, tcur, outcome, reported>>
    /\ UNCHANGED envvars

\* a variant of the report that counts the submitted links
SubmittedCount(fs) == Len(links)

\* downloaded_files.len()
DownloadedCount(fs) == Len(fs)

\* println!("Total files downloaded: {}", ...); Ok(())
Report ==
    /\ pc = "returned"
    /\ reported' = DownloadedCount(downloaded_files)
    /\ pc' = "done"
    /\ UNCHANGED <<page, result, links, total, current, last_file, permits,
                   waiters, spawned, tpc, permit, tcur, outcome, downloaded_files>>
    /\ UNCHANGED envvars

Unit(t) ==
    \/ Acquire(t)
    \/ Resume(t)
    \/ SendOk(t)
    \/ CreateOk(t)
    \/ BytesOk(t)
    \/ WriteOk(t)
    \/ Fails(t)
    \/ FetchAdd(t)
    \/ SetLastFile(t)
    \/ PrintProgress(t)
    \/ UnitEnd(t)

Next ==
    \/ FetchIndexFails
    \/ FetchIndexOk(ListingPages)
    \/ ExtractLinks
    \/ MainFatal
    \/ MainPanics
    \/ MainNoLinks
    \/ DownloadFilesStart
    \/ Spawn
    \/ \E t \in Tasks : Unit(t)
    \/ JoinAll
    \/ Report

Spec == Init /\ [][Next]_vars

\* the pipeline up to the call of download_files, on every page of Pages
NextExtract ==
    \/ FetchIndexFails
    \/ FetchIndexOk(Pages)
    \/ ExtractLinks
    \/ MainFatal
    \/ MainPanics
    \/ MainNoLinks
    \/ DownloadFilesStart

SpecExtract == Init /\ [][NextExtract]_vars

\* the steps of main that wait for no request
MainStep ==
    \/ ExtractLinks
    \/ MainFatal
    \/ MainPanics
    \/ MainNoLinks
    \/ DownloadFilesStart
    \/ Spawn
    \/ JoinAll
    \/ Report

\* the scheduling of the pipeline: main and every spawned unit keep running
\* (the tokio runtime polls every ready task), and every request of
\* download_files returns, with a response or an error, since its client has
\* a timeout. The client of fetch_download_links has none: nothing makes the
\* fetch of the index page return.
Fairness ==
    /\ WF_vars(MainStep)
    /\ \A t \in 1..Len(Listing) : WF_vars(t \in Tasks /\ Unit(t))

SpecLive == Init /\ [][Next]_vars /\ Fairness

(***************************************************************************)
(* Properties.                                                             *)
(***************************************************************************)
Holders == {t \in Tasks : permit[t]}

\* the units whose GET was sent and whose block has not ended
InFlight ==
    {t \in Tasks : tpc[t] \in {"send", "create", "bytes", "write", "fetch_add",
                               "set_last", "print", "ok", "failed"}}

\* the units with a network request outstanding
Requesting == {t \in Tasks : tpc[t] \in {"send", "bytes"}}

\* C1: at most max_concurrent units hold the gate at any time, and a unit
\* whose GET was sent (and whose block has not ended) holds the gate.
C1_GateBoundsInFlight ==
    /\ Cardinality(Holders) <= max_concurrent
    /\ Cardinality(InFlight) <= max_concurrent
    /\ \A t \in InFlight : permit[t]

\* the gate is full, every holder has a request outstanding, and a unit waits
C1_Witness ==
    /\ Cardinality(Requesting) = max_concurrent
    /\ waiters # <<>>

FailedUnits == {t \in Tasks : outcome[t] = None}

\* the number of entries of list ls equal to x
RECURSIVE Count(_, _)
Count(ls, x) ==
    IF ls = <<>> THEN 0
    ELSE (IF Head(ls) = x THEN 1 ELSE 0) + Count(Tail(ls), x)

\* C2: when download_files has returned and exactly one unit failed, the
\* other N-1 units ran to their end (through the progress notification) and
\* the returned list holds exactly their N-1 file names.
C2_OneFailureOthersSucceed ==
    (pc \in {"returned", "done"} /\ Cardinality(FailedUnits) = 1) =>
        /\ Len(downloaded_files) = Len(links) - 1
        /\ \A t \in Tasks \ FailedUnits :
              /\ tpc[t] = "done"
              /\ tcur[t] > 0
              /\ Count(downloaded_files, file_name(links[t]))
                   = Cardinality({u \in Tasks \ FailedUnits :
                                     file_name(links[u]) = file_name(links[t])})

\* three links, the first download failed, the run is over
C2_Witness ==
    /\ pc = "done"
    /\ Len(links) = 3
    /\ FailedUnits = {1}
    /\ Len(downloaded_files) = 2

\* C3: under the scheduling of SpecLive, every spawned unit, queued or
\* holding a permit, reaches its end (so it acquired the gate), with its
\* permit given back and its outcome set, whether it succeeded or failed.
C3_PermitsReleasedUnitsEnd ==
    \A t \in 1..Len(Listing) :
        (t \in Tasks /\ tpc[t] # "unspawned")
          ~> (t \in Tasks /\ tpc[t] = "done" /\ ~permit[t] /\ outcome[t] # Pending)

\* a unit that queued was handed the permit of a unit that failed, while
\* the other holder has failed too
C3_Witness ==
    \E t \in Tasks :
        /\ tpc[t] = "woken"
        /\ \E u \in Tasks : outcome[u] = None
        /\ \E u \in Tasks : tpc[u] = "failed"

Terminated == pc \in {"fatal", "nolinks", "done", "panicked"}

\* C4: every run of the pipeline reaches a terminal state.
C4_RunTerminates == <>Terminated

\* the units that made their call of fetch_add
Incremented ==
    {t \in Tasks : \/ tpc[t] \in {"set_last", "print", "ok"}
                   \/ (tpc[t] = "done" /\ outcome[t].kind = "some")}

\* C5: after M calls of increment, in any interleaving, the counter is M and
\* the values the callers got are exactly 1..M, each once.
C5_IncrementLinearizable ==
    /\ current = Cardinality(Incremented)
    /\ {tcur[t] : t \in Incremented} = 1..Cardinality(Incremented)

\* as many callers as the gate admits are inside increment at once, after an
\* earlier call has returned
C5_Witness ==
    /\ Cardinality({t \in Tasks : tpc[t] \in {"set_last", "print"}}) = max_concurrent
    /\ current = max_concurrent + 1

\* C6: the counter never exceeds total and never decreases, and total is the
\* number of submitted links from the construction of the tracker on.
C6_CounterBoundedMonotonic ==
    [][ /\ current <= total
        /\ current' <= total'
        /\ current' >= current
        /\ (pc \notin {"fetch", "extract", "extracted"} =>
              /\ total = Len(links)
              /\ total' = total) ]_vars

\* every download succeeded: the counter has reached total
C6_Witness ==
    /\ pc = "done"
    /\ total = 3
    /\ current = total

(***************************************************************************)
(* Properties of link extraction, stated on the document.                  *)
(***************************************************************************)
\* the positions of the anchors that selector i matches and whose href
\* passes the filter
Survivors(document, i) ==
    {k \in 1..Len(document) :
        /\ Matches(selectors[i], document[k])
        /\ document[k].has
        /\ LikelyDataFile(document[k].href)}

\* the first selector with a surviving candidate (0: none)
FirstRule(document) ==
    IF \E i \in 1..Len(selectors) : Survivors(document, i) # {}
    THEN CHOOSE i \in 1..Len(selectors) :
            /\ Survivors(document, i) # {}
            /\ \A j \in 1..(i - 1) : Survivors(document, j) = {}
    ELSE 0

UrlAt(document, k) == resolve_url(document[k].href).url

Resolvable(document, K) == \A k \in K : resolve_url(document[k].href).ok

\* out lists every URL of the positions K of the document exactly once, in
\* the order of the first position of each
FirstOccurrences(out, document, K) ==
    /\ Range(out) = {UrlAt(document, k) : k \in K}
    /\ \A i, j \in 1..Len(out) : i # j => out[i] # out[j]
    /\ \A i, j \in 1..Len(out) :
          i < j => \E k \in K :
                      /\ UrlAt(document, k) = out[i]
                      /\ \A m \in K : UrlAt(document, m) = out[j] => k < m

Extracted == pc = "extracted" /\ page # NoPage

\* C7: a returned non-empty list comes from the first selector that has a
\* surviving candidate, and from that selector alone; the selectors after
\* it add nothing.
C7_FirstRuleWins ==
    (Extracted /\ result.kind = "ok") =>
        /\ result.sel = FirstRule(page.anchors)
        /\ IF result.sel = 0
           THEN result.links = <<>>
           ELSE Range(result.links) =
                  {UrlAt(page.anchors, k) : k \in Survivors(page.anchors, result.sel)}

\* the first selector yielded links, and the fallback selector would have
\* yielded a link that is not returned
C7_Witness ==
    /\ Extracted
    /\ result.kind = "ok"
    /\ result.sel = 1
    /\ \E k \in Survivors(page.anchors, Len(selectors)) :
          /\ resolve_url(page.anchors[k].href).ok
          /\ UrlAt(page.anchors, k) \notin Range(result.links)

\* the anchors matched by div.bdpLink a
BdpAnchors(document) ==
    {k \in 1..Len(document) : Matches(Desc("div.bdpLink"), document[k])}

\* those of them whose href passes the filter
BdpSurvivors(document) ==
    {k \in BdpAnchors(document) :
        document[k].has /\ LikelyDataFile(document[k].href)}

\* C8 as stated: with an anchor matched by div.bdpLink a, the result is the
\* list of the URLs of the anchors that rule matches.
C8_AsStated ==
    (Extracted /\ BdpAnchors(page.anchors) # {}) =>
        /\ result.kind = "ok"
        /\ FirstOccurrences(result.links, page.anchors,
                            {k \in BdpAnchors(page.anchors) : page.anchors[k].has})

\* C8, amended: with an anchor of div.bdpLink a whose href passes the
\* filter, extraction ends with the resolution error of such an href, or
\* returns the URLs of exactly those anchors, each once, in document order.
C8_TopRuleAlone ==
    (Extracted /\ BdpSurvivors(page.anchors) # {}) =>
        IF Resolvable(page.anchors, BdpSurvivors(page.anchors))
        THEN /\ result.kind = "ok"
             /\ result.sel = 1
             /\ FirstOccurrences(result.links, page.anchors,
                                 BdpSurvivors(page.anchors))
        ELSE result.kind = "err"

\* two anchors of div.bdpLink a pass the filter, an anchor outside passes it
\* too, and two links are returned
C8_Witness ==
    /\ Extracted
    /\ result.kind = "ok"
    /\ Cardinality(BdpSurvivors(page.anchors)) = 2
    /\ Len(result.links) = 2
    /\ \E k \in 1..Len(page.anchors) :
          /\ k \notin BdpAnchors(page.anchors)
          /\ page.anchors[k].has
          /\ LikelyDataFile(page.anchors[k].href)
          /\ resolve_url(page.anchors[k].href).ok
          /\ UrlAt(page.anchors, k) \notin Range(result.links)

\* C9: a returned list holds no URL twice; its URLs stand in the order of
\* their first occurrence among the candidates of the selector used.
C9_NoDuplicates ==
    (Extracted /\ result.kind = "ok" /\ result.sel # 0) =>
        FirstOccurrences(result.links, page.anchors,
                         Survivors(page.anchors, result.sel))

\* two different hrefs resolve to one URL, which is followed by another link
C9_Witness ==
    /\ Extracted
    /\ result.kind = "ok"
    /\ Len(result.links) = 2
    /\ \E k, m \in Survivors(page.anchors, result.sel) :
          /\ k < m
          /\ page.anchors[k].href # page.anchors[m].href
          /\ UrlAt(page.anchors, k) = UrlAt(page.anchors, m)
          /\ UrlAt(page.anchors, k) = result.links[1]

\* C10: on a fetched page where no anchor passes the filter, extraction
\* returns the empty list.
C10_EmptyIsOk ==
    (Extracted /\ FirstRule(page.anchors) = 0) =>
        (result.kind = "ok" /\ result.links = <<>>)

\* C11: an href that does not resolve is skipped alone: extraction of a
\* fetched page never ends with the resolution error, and it returns links
\* whenever some candidate resolves.
C11_SkipUnresolvable ==
    Extracted =>
        /\ result.kind # "err"
        /\ (\E i \in 1..Len(selectors) :
              \E k \in Survivors(page.anchors, i) :
                 resolve_url(page.anchors[k].href).ok)
             => (result.kind = "ok" /\ result.links # <<>>)

(***************************************************************************)
(* Properties of the downloads: statuses, files, outcomes, the display.    *)
(***************************************************************************)
Over == pc \in {"returned", "done"}

Succeeded == {t \in Tasks : outcome[t].kind = "some"}

\* C12: a download whose response has a non-success status is a failure: it
\* does not advance the counter, its outcome is no file name, and the count
\* reported at the end does not include it.
C12_ErrorStatusIsFailure ==
    /\ \A t \in Tasks :
          status[t] = "error" => (tcur[t] = 0 /\ t \notin Succeeded)
    /\ pc = "done" =>
          reported <= Cardinality({t \in Tasks : status[t] = "success"})

\* C13: when download_files has returned, every file named by a successful
\* outcome holds the body of one single link with that file name.
C13_FileHoldsOneBody ==
    Over =>
        \A t \in Succeeded :
            \E u \in Tasks :
                /\ file_name(links[u]) = outcome[t].name
                /\ files[outcome[t].name].content = RemoteBody(u)

BeforeDownload ==
    pc \in {"fetch", "extract", "extracted", "fatal", "panicked", "nolinks"}

\* no unit exists and no request of a download was sent
NothingIssued == links = <<>> /\ tpc = <<>> /\ requests = <<>>

\* C14: before download_files is called, and in the runs that end with the
\* error of the index fetch or with no link found, no unit exists and no
\* download request was sent; download_files is entered only from a fetched
\* page whose extraction returned a non-empty list, with that list; a failed
\* fetch ends the run as fatal and an empty list ends it as no links found.
C14_DownloadOnlyAfterLinks ==
    [][ /\ BeforeDownload => NothingIssued
        /\ BeforeDownload' => NothingIssued'
        /\ (BeforeDownload /\ ~BeforeDownload') =>
              /\ page # NoPage
              /\ result.kind = "ok"
              /\ result.links # <<>>
              /\ links' = result.links
        /\ (pc = "extracted" /\ result.kind = "err") => pc' = "fatal"
        /\ (pc = "extracted" /\ result.kind = "ok" /\ result.links = <<>>)
              => pc' = "nolinks" ]_vars

\* a page was fetched, no link was found on it, and the run has ended
C14_Witness ==
    /\ pc = "nolinks"
    /\ page # NoPage
    /\ NothingIssued

\* C15: under the scheduling of SpecLive, a run that entered download_files
\* ends in the final report, however many units failed, and the reported
\* count is the number of units whose outcome is a file name.
C15_DownloadingEndsDone ==
    /\ (pc = "spawning") ~> (pc = "done")
    /\ [](pc = "done" => reported = Cardinality(Succeeded))

\* every one of three downloads failed, and the run ended reporting 0
C15_Witness ==
    /\ pc = "done"
    /\ Len(links) = 3
    /\ FailedUnits = Tasks
    /\ reported = 0

\* the units that called progress.increment
Notified == {t \in Tasks : tcur[t] > 0}

\* C16: a unit that failed never notified the tracker, a unit that succeeded
\* did, and every notification added one: when download_files has returned,
\* the counter is the length of the returned list, which is the number of
\* links less the failures, and is below total if a unit failed.
C16_NotifiedOncePerSuccess ==
    /\ \A t \in Tasks : (tpc[t] = "failed" \/ outcome[t] = None) => tcur[t] = 0
    /\ \A t \in Succeeded : tcur[t] > 0
    /\ current = Cardinality(Notified)
    /\ Over =>
          /\ current = Len(downloaded_files)
          /\ current = Len(links) - Cardinality(FailedUnits)
          /\ FailedUnits # {} => current < total

\* two of three downloads failed and download_files has returned
C16_Witness ==
    /\ pc = "returned"
    /\ Len(links) = 3
    /\ Cardinality(FailedUnits) = 2
    /\ current = 1

\* C17: the completion marker is printed at most once; it is never printed
\* in a run where a unit failed, and it has been printed exactly once when
\* download_files returns with every unit succeeded.
C17_MarkerAtMostOnce ==
    /\ markers <= 1
    /\ (\E t \in Tasks : tpc[t] = "failed" \/ outcome[t] = None) => markers = 0
    /\ Over => markers = (IF FailedUnits = {} THEN 1 ELSE 0)

\* the marker is out, and a unit that got a lower count has yet to print
C17_Witness ==
    /\ markers = 1
    /\ \E t \in Tasks : tpc[t] = "print" /\ tcur[t] < total

C18_State ==
    /\ Len(tpc) = Len(links)
    /\ spawned = Cardinality({t \in Tasks : tpc[t] # "unspawned"})
    /\ pc \in {"joining", "returned", "done"} => spawned = Len(links)
    /\ \A t \in Tasks : requests[t] <= 1
    /\ Over =>
          /\ \A t \in Tasks : outcome[t] # Pending
          /\ Cardinality(Succeeded) + Cardinality(FailedUnits) = Len(links)

\* C18: there is one unit per link, spawned once; a unit sends at most one
\* GET, takes no step after a failure but the end of its block, and its
\* outcome, once set, stays; when download_files has returned every unit has
\* an outcome, and successes plus failures is the number of links.
C18_OneAttemptPerUrl ==
    [][ /\ C18_State
        /\ C18_State'
        /\ \A t \in Tasks :
              /\ outcome[t] # Pending => outcome'[t] = outcome[t]
              /\ tpc[t] = "failed" => tpc'[t] \in {"failed", "done"}
              /\ tpc[t] = "done" => tpc'[t] = "done" ]_vars

\* the second of three downloads failed, each unit sent one request
C18_Witness ==
    /\ pc = "returned"
    /\ Len(links) = 3
    /\ FailedUnits = {2}
    /\ \A t \in Tasks : requests[t] = 1

\* C19: the count on the progress line never goes down from one line to the
\* next, and when download_files has returned after a success the line
\* shown carries the value of the counter.
C19_LinesInCountOrder ==
    [][ /\ shown' >= shown
        /\ (pc' \in {"returned", "done"} /\ current' > 0) => shown' = current'
      ]_vars

\* C20: when download_files has returned, every file that exists is named
\* by a successful outcome.
C20_NoFileLeftByFailure ==
    Over =>
        \A n \in DOMAIN files :
            files[n].exists => \E t \in Succeeded : outcome[t].name = n

====
